---- MODULE Spec2Model ----
(***************************************************************************)
(* Model of src/Content/api.py: the request dispatcher (bounded retries    *)
(* over one transport) and the pagination driver built on it.              *)
(*                                                                         *)
(* Text is modelled as a sequence of tokens: a URL is a sequence of URL    *)
(* tokens ("" is <<>>), a header value is a sequence of characters (for    *)
(* Retry-After) or of Link-header tokens, where the ten-character word     *)
(* rel="next" is the single token "rel=next". A message is a sequence of   *)
(* its fragments, so that formatting is concatenation.                     *)
(***************************************************************************)
EXTENDS Integers, Sequences, FiniteSets, TLC

VARIABLES
    max_retries,  \* kwargs "max_retries" of request_dispatcher
    retry_delay,  \* kwargs "retry_delay" of request_dispatcher
    max_pages,    \* argument of fetch_paginated_data
    per_page,     \* argument of fetch_paginated_data
    params,       \* the params dict of fetch_paginated_data (None or a dict)
    url,          \* the driver's current URL
    results,      \* the driver's accumulated pages
    page_count,   \* the driver's page counter
    pc,           \* position of the task in the code
    attempt,      \* loop index of the dispatcher's for loop
    response,     \* the value session.request / request_dispatcher last yielded
    sleeping,     \* argument of the asyncio.sleep the dispatcher is suspended in
    log,          \* events of the running dispatch: "call" (session.request
                  \* starts), "got" (it yields a status), "error" (it yields
                  \* an APIError), "sleep" (asyncio.sleep is called)
    dispatched,   \* every request_dispatcher call of the driver, in order
    pages,        \* every Response a dispatch returned to the driver, in order
    outcome,      \* how fetch_paginated_data ended
    yielded,      \* the value session.request last yielded to the dispatcher
    input,        \* the argument of the pure function under study
    output,       \* what that function returned
    tasks,        \* the coroutines main() gathers, each with its position
    session,      \* the session main() wraps: calls in flight, close() calls
    mainpc        \* position of main() around its async with block

vars == <<max_retries, retry_delay, max_pages, per_page, params, url, results,
          page_count, pc, attempt, response, sleeping, log, dispatched, pages,
          outcome, yielded, input, output, tasks, session,
          mainpc>>

\* what the dispatcher and the driver never touch
others == <<input, output, tasks, session, mainpc>>

(*************************** bounds of the model ***************************)
MaxRetriesBound == 3
MaxPagesBound == 3
\* entries of a Link header handed to get_next_page_url on its own
MaxLinks == 2
\* items of a page, and pages of a page set, handed to a parser
MaxItems == 2
\* times a parser is applied to the same data
MaxParses == 2
\* requests the block of an async with makes before it ends or raises
MaxBlockCalls == 2

\* the value of a variable not yet assigned
None == [kind |-> "None"]

\* params is None
NoParams == [None |-> TRUE]

\* marks a header the server does not send
NotSent == <<"not sent">>

(******************************* text helpers ******************************)
Min(a, b) == IF a < b THEN a ELSE b
Max(a, b) == IF a > b THEN a ELSE b

\* str.find(c): 0-based index of the first occurrence, -1 when there is none
Find(s, c) ==
    IF \E i \in 1..Len(s) : s[i] = c
    THEN (CHOOSE i \in 1..Len(s) : s[i] = c /\ \A j \in 1..(i - 1) : s[j] # c) - 1
    ELSE -1

\* s[a:b] with Python's treatment of negative and out-of-range indices
Slice(s, a, b) ==
    LET na == IF a < 0 THEN Max(Len(s) + a, 0) ELSE Min(a, Len(s))
        nb == IF b < 0 THEN Max(Len(s) + b, 0) ELSE Min(b, Len(s))
    IN  IF na >= nb THEN <<>> ELSE SubSeq(s, na + 1, nb)

\* str.split(sep): the pieces between the separators, empty pieces kept
RECURSIVE Split(_, _)
Split(s, sep) ==
    LET i == Find(s, sep)
    IN  IF i = -1 THEN <<s>>
        ELSE <<SubSeq(s, 1, i)>> \o Split(SubSeq(s, i + 2, Len(s)), sep)

\* x in s
Contains(s, x) == \E i \in 1..Len(s) : s[i] = x

Digits == {"0", "1", "2", "3", "4", "5", "6", "7", "8", "9"}
DigitVal(c) ==
    CASE c = "0" -> 0 [] c = "1" -> 1 [] c = "2" -> 2 [] c = "3" -> 3
      [] c = "4" -> 4 [] c = "5" -> 5 [] c = "6" -> 6 [] c = "7" -> 7
      [] c = "8" -> 8 [] c = "9" -> 9

\* whether int(s) accepts the text s: decimal digits after an optional sign
IsIntText(s) ==
    LET body == IF Len(s) > 0 /\ s[1] \in {"-", "+"} THEN Tail(s) ELSE s
    IN  Len(body) > 0 /\ \A i \in 1..Len(body) : body[i] \in Digits

RECURSIVE DecimalValue(_)
DecimalValue(s) ==
    IF s = <<>> THEN 0
    ELSE 10 * DecimalValue(SubSeq(s, 1, Len(s) - 1)) + DigitVal(s[Len(s)])

\* int(s) of a text that IsIntText accepts
IntOfText(s) ==
    IF s[1] = "-" THEN 0 - DecimalValue(Tail(s))
    ELSE IF s[1] = "+" THEN DecimalValue(Tail(s))
    ELSE DecimalValue(s)

(********************************* values **********************************)
APIError(status_code, message) ==
    [kind |-> "APIError", status_code |-> status_code, message |-> message]

isAPIError(v) == v.kind = "APIError"

\* dict.get(key, default)
Get(d, key, default) == IF key \in DOMAIN d THEN d[key] ELSE default

EmptyHeaders == [k \in {} |-> <<>>]

\* a headers dict with the given Retry-After and Link values (or NotSent)
MkHeaders(ra, link) ==
    [k \in (IF ra = NotSent THEN {} ELSE {"Retry-After"})
            \cup (IF link = NotSent THEN {} ELSE {"Link"})
        |-> IF k = "Retry-After" THEN ra ELSE link]

\* aiohttpResponse: the adapter exposes status, headers, text() and json()
aiohttpResponse(status, headers, text, json) ==
    [kind |-> "Response", status |-> status, headers |-> headers,
     text |-> text, json |-> json]

(******************************* the server ********************************)
\* Retry-After values a 403 may carry: not sent, seconds, or an HTTP-date
RetryAfterValues == {NotSent, <<"7">>, <<"1", "2">>, <<"W", "e", "d">>}

\* <url>; rel="next"  with the URL one token
LinkNext(u) == <<"<", u, ">", ";", " ", "rel=next">>
LinkLast(u) == <<"<", u, ">", ";", " ", "rel=last">>
LinkPrev(u) == <<"<", u, ">", ";", " ", "rel=prev">>

\* Link values a page may carry
LinkValues ==
    {NotSent,
     LinkNext("u2") \o <<",", " ">> \o LinkLast("u9"),
     LinkPrev("u1") \o <<",", " ">> \o LinkNext("u3"),
     LinkLast("u9")}

\* decoded JSON bodies of pages
Bodies == {"P1", "P2"}

\* statuses the dispatcher has no branch of its own for
OtherStatuses == {201, 301, 400, 429}
ServerErrors == {500, 503}

\* what self._session.request of the aiohttp library can do with one call:
\* give a response of any status, or raise a ClientError
ClientOutcomes ==
    {[raised |-> FALSE, status |-> 200, headers |-> MkHeaders(NotSent, l),
      text |-> <<"ok">>, json |-> b] : l \in LinkValues, b \in Bodies}
    \cup {[raised |-> FALSE, status |-> 403, headers |-> MkHeaders(ra, NotSent),
           text |-> <<"limit">>, json |-> "E"] : ra \in RetryAfterValues}
    \cup {[raised |-> FALSE, status |-> s, headers |-> EmptyHeaders,
           text |-> <<"oops">>, json |-> "E"] :
            s \in {401, 404} \cup OtherStatuses \cup ServerErrors}
    \cup {[raised |-> TRUE, cause |-> c] : c \in {<<"reset">>, <<"dns">>}}

(***************************** aiohttpSession ******************************)
\* aiohttpSession.request: the try/except ClientError around the library call
SessionRequest(o) ==
    IF o.raised
    THEN APIError(0, <<"Request failed: ">> \o o.cause)
    ELSE aiohttpResponse(o.status, o.headers, o.text, o.json)

(**************************** request_dispatcher ***************************)
DefaultRetryDelay == 60

\* a dispatcher that never reads the Retry-After header
RetryAfterIgnored(r, delay) == [ok |-> TRUE, secs |-> delay]

\* int(response.headers.get("Retry-After", retry_delay)); the default is
\* already an integer number of seconds, text goes through int()
RetryAfter(r, delay) ==
    IF "Retry-After" \notin DOMAIN r.headers
    THEN [ok |-> TRUE, secs |-> delay]
    ELSE IF IsIntText(r.headers["Retry-After"])
        THEN [ok |-> TRUE, secs |-> IntOfText(r.headers["Retry-After"])]
        ELSE [ok |-> FALSE, secs |-> 0]

\* the if/elif chain on response.status of one attempt
OnStatus(r, delay) ==
    IF r.status = 200 THEN [act |-> "return", value |-> r]
    ELSE IF r.status = 401
        THEN [act |-> "return",
              value |-> APIError(401, <<"Unauthorized access. Check your token.">>)]
    ELSE IF r.status = 403
        THEN IF RetryAfter(r, delay).ok
             THEN [act |-> "sleep", secs |-> RetryAfter(r, delay).secs]
             ELSE [act |-> "raise", exc |-> "ValueError"]
    ELSE IF r.status = 404
        THEN [act |-> "return", value |-> APIError(404, <<"Resource not found.">>)]
    ELSE IF r.status >= 500 THEN [act |-> "sleep", secs |-> delay]
    ELSE [act |-> "return",
          value |-> APIError(r.status, <<"Unexpected error: ">> \o r.text)]

\* a dispatcher that backs off and retries after a 404
ClassifyRetries404(r, delay) ==
    IF isAPIError(r) THEN [act |-> "return", value |-> r]
    ELSE IF r.status = 404 THEN [act |-> "sleep", secs |-> delay]
    ELSE OnStatus(r, delay)

\* a dispatcher that takes a 429 for a retryable status
ClassifyRetries429(r, delay) ==
    IF isAPIError(r) THEN [act |-> "return", value |-> r]
    ELSE IF r.status = 429 THEN [act |-> "sleep", secs |-> delay]
    ELSE OnStatus(r, delay)

\* a dispatcher that backs off and retries after a transport failure
ClassifyRetriesTransportError(r, delay) ==
    IF isAPIError(r) THEN [act |-> "sleep", secs |-> delay]
    ELSE OnStatus(r, delay)

\* a dispatcher that takes every 2xx status for a success
ClassifyAccepts2xx(r, delay) ==
    IF isAPIError(r) THEN [act |-> "return", value |-> r]
    ELSE IF r.status >= 200 /\ r.status < 300 THEN [act |-> "return", value |-> r]
    ELSE OnStatus(r, delay)

\* one attempt: what the dispatcher does with the value session.request
\* yielded, an APIError or a Response
Classify(r, delay) ==
    IF isAPIError(r) THEN [act |-> "return", value |-> r]
    ELSE OnStatus(r, delay)

RetriesExhausted == APIError(0, <<"Max retries reached without success.">>)

\* a dispatcher that makes one attempt too many
HasAttemptOffByOne(n, retries) == n <= retries

\* for attempt in range(max_retries): whether the loop body runs once more
HasAttempt(n, retries) == n < retries

Event(ev, arg) == [ev |-> ev, arg |-> arg]

\* the for loop's head: start the next transport call
SendRequest ==
    /\ pc = "attempt"
    /\ HasAttempt(attempt, max_retries)
    /\ pc' = "inflight"
    /\ log' = Append(log, Event("call", attempt))
    /\ UNCHANGED <<yielded, others,
                   max_retries, retry_delay, max_pages, per_page, params, url,
                   results, page_count, attempt, response, sleeping,
                   dispatched, pages, outcome>>

\* the for loop ran out: return APIError(0, "Max retries reached ...")
Exhausted ==
    /\ pc = "attempt"
    /\ ~HasAttempt(attempt, max_retries)
    /\ response' = RetriesExhausted
    /\ pc' = "returned"
    /\ UNCHANGED <<yielded, others,
                   max_retries, retry_delay, max_pages, per_page, params, url,
                   results, page_count, attempt, sleeping, log, dispatched,
                   pages, outcome>>

\* session.request yields; the dispatcher runs to its next await, return or
\* raise
Receive ==
    /\ pc = "inflight"
    /\ \E o \in ClientOutcomes :
        LET r == SessionRequest(o)
            c == Classify(r, retry_delay)
            got == IF isAPIError(r) THEN Event("error", r)
                   ELSE Event("got", r.status)
        IN  /\ yielded' = r
            /\ response' = IF c.act = "return" THEN c.value ELSE r
            /\ pc' = CASE c.act = "return" -> "returned"
                       [] c.act = "sleep" -> "sleep"
                       [] c.act = "raise" -> "done"
            /\ sleeping' = IF c.act = "sleep" THEN c.secs ELSE sleeping
            /\ log' = IF c.act = "sleep"
                      THEN log \o <<got, Event("sleep", c.secs)>>
                      ELSE Append(log, got)
            /\ outcome' = IF c.act = "raise"
                          THEN [kind |-> "raise", value |-> c.exc]
                          ELSE outcome
    /\ UNCHANGED <<others,
                   max_retries, retry_delay, max_pages, per_page, params, url,
                   results, page_count, attempt, dispatched, pages>>

\* asyncio.sleep returns; the for loop moves to its next index
WakeUp ==
    /\ pc = "sleep"
    /\ attempt' = attempt + 1
    /\ pc' = "attempt"
    /\ UNCHANGED <<yielded, others,
                   max_retries, retry_delay, max_pages, per_page, params, url,
                   results, page_count, response, sleeping, log, dispatched,
                   pages, outcome>>

(****************************** the driver *********************************)
\* a parser that takes the URL of the first entry, whatever its rel
FirstEntry(links) ==
    Slice(Head(links), Find(Head(links), "<") + 1, Find(Head(links), ">"))

\* a parser that cuts from the "<" itself
RECURSIVE FirstNextWithBracket(_)
FirstNextWithBracket(links) ==
    IF links = <<>> THEN <<>>
    ELSE IF Contains(Head(links), "rel=next")
        THEN Slice(Head(links), Find(Head(links), "<"), Find(Head(links), ">"))
        ELSE FirstNextWithBracket(Tail(links))

\* the for loop of get_next_page_url: the first comma-separated piece
\* holding rel="next", cut between its first "<" and its first ">"
RECURSIVE FirstNext(_)
FirstNext(links) ==
    IF links = <<>> THEN <<>>
    ELSE IF Contains(Head(links), "rel=next")
        THEN Slice(Head(links), Find(Head(links), "<") + 1, Find(Head(links), ">"))
        ELSE FirstNext(Tail(links))

\* get_next_page_url: the Link header ("" when not sent), split at commas
get_next_page_url(r) ==
    LET link_header == Get(r.headers, "Link", <<>>)
    IN  IF link_header # <<>> THEN FirstNext(Split(link_header, ",")) ELSE <<>>

\* a driver that sends per_page alone
WithPerPageOnly(p, n) == [k \in {"per_page"} |-> n]

\* params["per_page"] = per_page on the dict (a new one when params is None)
WithPerPage(p, n) ==
    LET d == IF p = NoParams THEN [k \in {} |-> 0] ELSE p
    IN  [k \in DOMAIN d \cup {"per_page"} |-> IF k = "per_page" THEN n ELSE d[k]]

\* a driver that follows the links without a cap on the pages
LoopConditionNoCap(u, count, cap) == u # <<>>

\* a driver that fetches one page too many
LoopConditionOffByOne(u, count, cap) == u # <<>> /\ count <= cap

\* while url and page_count < max_pages
LoopCondition(u, count, cap) == u # <<>> /\ count < cap

\* the while loop's head: call request_dispatcher for the next page, or
\* return results
NextPage ==
    /\ pc = "loop"
    /\ IF LoopCondition(url, page_count, max_pages)
       THEN /\ params' = WithPerPage(params, per_page)
            /\ dispatched' = Append(dispatched,
                    [method |-> "GET", url |-> url, params |-> params',
                     max_retries |-> max_retries, retry_delay |-> retry_delay])
            /\ attempt' = 0
            /\ log' = <<>>
            /\ pc' = "attempt"
            /\ UNCHANGED outcome
       ELSE /\ outcome' = [kind |-> "results", value |-> results]
            /\ pc' = "done"
            /\ UNCHANGED <<params, dispatched, attempt, log>>
    /\ UNCHANGED <<yielded, others,
                   max_retries, retry_delay, max_pages, per_page, url, results,
                   page_count, response, sleeping, pages>>

\* a driver that returns the pages it has when a page fails
TakePagePartial ==
    /\ pc = "returned"
    /\ IF isAPIError(response)
       THEN /\ outcome' = [kind |-> "results", value |-> results]
            /\ pc' = "done"
            /\ UNCHANGED <<results, url, page_count, pages>>
       ELSE /\ results' = Append(results, response.json)
            /\ url' = get_next_page_url(response)
            /\ page_count' = page_count + 1
            /\ pages' = Append(pages, response)
            /\ pc' = "loop"
            /\ UNCHANGED outcome
    /\ UNCHANGED <<yielded, others,
                   max_retries, retry_delay, max_pages, per_page, params,
                   attempt, response, sleeping, log, dispatched>>

\* request_dispatcher returned: give up on an APIError, else take the page
\* and follow its Link header
TakePage ==
    /\ pc = "returned"
    /\ IF isAPIError(response)
       THEN /\ outcome' = [kind |-> "error", value |-> response]
            /\ pc' = "done"
            /\ UNCHANGED <<results, url, page_count, pages>>
       ELSE /\ results' = Append(results, response.json)
            /\ url' = get_next_page_url(response)
            /\ page_count' = page_count + 1
            /\ pages' = Append(pages, response)
            /\ pc' = "loop"
            /\ UNCHANGED outcome
    /\ UNCHANGED <<yielded, others,
                   max_retries, retry_delay, max_pages, per_page, params,
                   attempt, response, sleeping, log, dispatched>>

(****************************** specification ******************************)
\* the settings a caller passes: the defaults with no params (get_commits),
\* and a short delay, a non-positive per_page and a query (search_repositories)
CallSettings ==
    {[retry_delay |-> DefaultRetryDelay, per_page |-> 30, params |-> NoParams],
     [retry_delay |-> 3, per_page |-> 0, params |-> [q |-> "ml"]]}
InitialUrls == {<<"u1">>, <<>>}

Init ==
    /\ max_retries \in -1..MaxRetriesBound
    /\ max_pages \in -1..MaxPagesBound
    /\ \E c \in CallSettings :
        /\ retry_delay = c.retry_delay
        /\ per_page = c.per_page
        /\ params = c.params
    /\ url \in InitialUrls
    /\ results = <<>>
    /\ page_count = 0
    /\ pc = "loop"
    /\ attempt = 0
    /\ response = None
    /\ sleeping = 0
    /\ log = <<>>
    /\ dispatched = <<>>
    /\ pages = <<>>
    /\ outcome = [kind |-> "running"]
    /\ yielded = None
    /\ input = <<>>
    /\ output = <<>>
    /\ tasks = <<>>
    /\ session = None
    /\ mainpc = "none"

Next ==
    \/ NextPage
    \/ SendRequest
    \/ Receive
    \/ WakeUp
    \/ Exhausted
    \/ TakePage

Spec == Init /\ [][Next]_vars

\* the event loop resumes a task whose await has completed: every transport
\* call yields, every sleep ends, every ready step runs
FairSpec == Spec /\ WF_vars(Next)

(************************ get_next_page_url on its own **********************)
\* the task stands nowhere in the dispatcher or the driver
NoFetch ==
    /\ max_retries = 0
    /\ retry_delay = DefaultRetryDelay
    /\ max_pages = 0
    /\ per_page = 30
    /\ params = NoParams
    /\ url = <<>>
    /\ results = <<>>
    /\ page_count = 0
    /\ attempt = 0
    /\ response = None
    /\ sleeping = 0
    /\ log = <<>>
    /\ dispatched = <<>>
    /\ pages = <<>>
    /\ outcome = [kind |-> "running"]
    /\ yielded = None

fetchVars == <<max_retries, retry_delay, max_pages, per_page, params, url,
               results, page_count, attempt, response, sleeping, log,
               dispatched, pages, outcome, yielded>>

LinkUrls ==
    {"https://api.example.com/page2", "https://api.example.com/page9", "u3"}
LinkRels == {"rel=next", "rel=last", "rel=prev"}

\* one entry of a Link header: <url>; rel="..."
LinkEntry(e) == <<"<", e.url, ">", ";", " ", e.rel>>

\* the entries joined by ", " into a Link header
RECURSIVE JoinLinks(_)
JoinLinks(entries) ==
    IF entries = <<>> THEN <<>>
    ELSE IF Len(entries) = 1 THEN LinkEntry(entries[1])
    ELSE LinkEntry(entries[1]) \o <<",", " ">> \o JoinLinks(Tail(entries))

\* the lists of at most MaxLinks entries
LinkLists ==
    UNION {[1..n -> [url : LinkUrls, rel : LinkRels]] : n \in 0..MaxLinks}

\* the responses get_next_page_url is applied to: one for each list of
\* entries, and one without a Link header
LinkInputs ==
    {[entries |-> l,
      response |-> aiohttpResponse(200, MkHeaders(NotSent, JoinLinks(l)),
                                   <<"ok">>, "P1")] : l \in LinkLists}
    \cup {[entries |-> <<>>,
           response |-> aiohttpResponse(200, EmptyHeaders, <<"ok">>, "P1")]}

InitLink ==
    /\ NoFetch
    /\ pc = "parse"
    /\ input \in LinkInputs
    /\ output = <<>>
    /\ tasks = <<>>
    /\ session = None
    /\ mainpc = "none"

\* url = get_next_page_url(response)
ParseLink ==
    /\ pc = "parse"
    /\ output' = get_next_page_url(input.response)
    /\ pc' = "parsed"
    /\ UNCHANGED <<fetchVars, input, tasks, session, mainpc>>

NextLink == ParseLink

LinkSpec == InitLink /\ [][NextLink]_vars

(******************************* the parsers *******************************)
\* a parser that puts each record in front of the ones before it
RECURSIVE repos_of_backwards(_)
repos_of_backwards(items) ==
    IF items = <<>> THEN <<>>
    ELSE repos_of_backwards(Tail(items))
         \o <<[name |-> Head(items).name, html_url |-> Head(items).html_url]>>

\* for item in page["items"]: repos_info.append({...})
RECURSIVE repos_of(_)
repos_of(items) ==
    IF items = <<>> THEN <<>>
    ELSE <<[name |-> Head(items).name, html_url |-> Head(items).html_url]>>
         \o repos_of(Tail(items))

\* parse_repositories: for page in data, the records of its items
RECURSIVE parse_repositories(_)
parse_repositories(data) ==
    IF data = <<>> THEN <<>>
    ELSE repos_of(Head(data).items) \o parse_repositories(Tail(data))

\* for commit in page: commits_info.append({...})
RECURSIVE commits_of(_)
commits_of(page) ==
    IF page = <<>> THEN <<>>
    ELSE <<[author |-> [name |-> Head(page).commit.author.name,
                        email |-> Head(page).commit.author.email,
                        date |-> Head(page).commit.author.date],
            sha |-> Head(page).sha,
            message |-> Head(page).commit.message]>>
         \o commits_of(Tail(page))

\* parse_commit_data: for page in data, the records of its commits
RECURSIVE parse_commit_data(_)
parse_commit_data(data) ==
    IF data = <<>> THEN <<>>
    ELSE commits_of(Head(data)) \o parse_commit_data(Tail(data))

\* parse_content_info: for item in data, its path and download link
RECURSIVE parse_content_info(_)
parse_content_info(data) ==
    IF data = <<>> THEN <<>>
    ELSE <<[path |-> Head(data).path, download_link |-> Head(data).download_url]>>
         \o parse_content_info(Tail(data))

\* the sequences of at most MaxItems elements of a set
SeqsUpTo(S) == UNION {[1..n -> S] : n \in 0..MaxItems}

\* items of the search, commits and contents endpoints, with the fields the
\* parsers read and one they do not
RepoItems ==
    {[name |-> "linux", html_url |-> "https://github.com/t/linux", stars |-> 9],
     [name |-> "git", html_url |-> "https://github.com/g/git", stars |-> 7]}
CommitItems ==
    {[sha |-> "a1", node_id |-> "n1",
      commit |-> [message |-> "first",
                  author |-> [name |-> "ann", email |-> "ann@x", date |-> "d1"]]],
     [sha |-> "b2", node_id |-> "n2",
      commit |-> [message |-> "second",
                  author |-> [name |-> "bob", email |-> "bob@x", date |-> "d2"]]]}
ContentItems ==
    {[path |-> "README", download_url |-> "https://raw/README", type |-> "file"],
     [path |-> "src", download_url |-> "https://raw/src", type |-> "dir"]}

\* what each parser is called with: the pages of fetch_paginated_data for
\* the first two, the decoded body of one response for the third
RepositoriesInputs ==
    {[fn |-> "parse_repositories", data |-> d] :
        d \in SeqsUpTo({[total_count |-> 2, items |-> i] : i \in SeqsUpTo(RepoItems)})}
CommitInputs ==
    {[fn |-> "parse_commit_data", data |-> d] : d \in SeqsUpTo(SeqsUpTo(CommitItems))}
ContentInputs ==
    {[fn |-> "parse_content_info", data |-> d] : d \in SeqsUpTo(ContentItems)}

InitParse ==
    /\ NoFetch
    /\ pc = "parse"
    /\ \/ input \in RepositoriesInputs
       \/ input \in CommitInputs
       \/ input \in ContentInputs
    /\ output = <<>>
    /\ tasks = <<>>
    /\ session = None
    /\ mainpc = "none"

\* one call of each parser on the data; the data is only read
ParseRepositories ==
    /\ pc = "parse"
    /\ input.fn = "parse_repositories"
    /\ Len(output) < MaxParses
    /\ output' = Append(output, parse_repositories(input.data))
    /\ UNCHANGED <<fetchVars, pc, input, tasks, session, mainpc>>

ParseCommitData ==
    /\ pc = "parse"
    /\ input.fn = "parse_commit_data"
    /\ Len(output) < MaxParses
    /\ output' = Append(output, parse_commit_data(input.data))
    /\ UNCHANGED <<fetchVars, pc, input, tasks, session, mainpc>>

ParseContentInfo ==
    /\ pc = "parse"
    /\ input.fn = "parse_content_info"
    /\ Len(output) < MaxParses
    /\ output' = Append(output, parse_content_info(input.data))
    /\ UNCHANGED <<fetchVars, pc, input, tasks, session, mainpc>>

NextParse ==
    \/ ParseRepositories
    \/ ParseCommitData
    \/ ParseContentInfo

ParseSpec == InitParse /\ [][NextParse]_vars

(***************************** SessionManager ******************************)
\* aiohttpSession(): a session just constructed. closes counts the calls of
\* close(), outstanding holds the callers whose request() has not returned,
\* late counts the requests begun on a closed session
aiohttpSession ==
    [kind |-> "aiohttpSession", closed |-> FALSE, closes |-> 0,
     outstanding |-> {}, late |-> 0]

\* await session.request(...) begins for caller i, and returns
request_begins(s, i) ==
    [s EXCEPT !.outstanding = @ \cup {i},
              !.late = IF s.closed THEN @ + 1 ELSE @]
request_ends(s, i) == [s EXCEPT !.outstanding = @ \ {i}]

\* aiohttpSession.close
close(s) == [s EXCEPT !.closed = TRUE, !.closes = @ + 1]

\* SessionManager.__aenter__: return self._session
aenter(s) == s

\* an __aexit__ that leaves the session open when the block raised
aexit_unless_raised(s, exc) == IF exc THEN s ELSE close(s)

\* SessionManager.__aexit__: await self._session.close(), whatever the
\* exception passed in; it returns None, so the exception goes on
aexit(s, exc) == close(s)

\* SessionManager(session) constructed, the async with not yet entered
InitScope ==
    /\ NoFetch
    /\ pc = "none"
    /\ input = <<>>
    /\ output = <<>>
    /\ tasks = <<>>
    /\ session = aiohttpSession
    /\ mainpc = "outside"

\* async with ... as session: __aenter__ hands the session to the block
ScopeEnter ==
    /\ mainpc = "outside"
    /\ session' = aenter(session)
    /\ mainpc' = "block"
    /\ UNCHANGED <<fetchVars, pc, input, output, tasks>>

\* the block awaits one session.request; output keeps the statuses it got
\* (0 for an APIError)
BlockRequest ==
    /\ mainpc = "block"
    /\ Len(output) < MaxBlockCalls
    /\ \E o \in ClientOutcomes :
        LET r == SessionRequest(o)
        IN  output' = Append(output, IF isAPIError(r) THEN 0 ELSE r.status)
    /\ session' = request_ends(request_begins(session, "block"), "block")
    /\ UNCHANGED <<fetchVars, pc, input, tasks, mainpc>>

\* the block runs to its end
BlockEnds ==
    /\ mainpc = "block"
    /\ mainpc' = "aexit"
    /\ UNCHANGED <<fetchVars, pc, input, output, tasks, session>>

\* the block raises
BlockRaises ==
    /\ mainpc = "block"
    /\ mainpc' = "aexit_exc"
    /\ UNCHANGED <<fetchVars, pc, input, output, tasks, session>>

\* leaving the async with: __aexit__ runs with the block's exception or
\* none, then control returns to the caller or the exception goes on
ScopeExit ==
    /\ mainpc \in {"aexit", "aexit_exc"}
    /\ session' = aexit(session, mainpc = "aexit_exc")
    /\ mainpc' = IF mainpc = "aexit_exc" THEN "raised" ELSE "returned"
    /\ UNCHANGED <<fetchVars, pc, input, output, tasks>>

NextScope ==
    \/ ScopeEnter
    \/ BlockRequest
    \/ BlockEnds
    \/ BlockRaises
    \/ ScopeExit

ScopeSpec == InitScope /\ [][NextScope]_vars

(********************************* main ************************************)
\* kwargs.pop("max_retries", 5), and the max_pages main passes
DefaultMaxRetries == 5
SearchMaxPages == 3
CommitsMaxPages == 2

\* the three coroutines of main's tasks list; get_contents dispatches one
\* request and follows no link
TaskCalls ==
    <<[fn |-> "search_repositories", paged |-> TRUE, max_pages |-> SearchMaxPages],
      [fn |-> "get_commits", paged |-> TRUE, max_pages |-> CommitsMaxPages],
      [fn |-> "get_contents", paged |-> FALSE, max_pages |-> 1]>>

\* what a coroutine ended with: the parsed records of so many pages, an
\* APIError of that status code, or an exception
Ended(kind, code) == [kind |-> kind, code |-> code]

NotStarted ==
    [pc |-> "ready", page_count |-> 0, attempt |-> 0, outcome |-> Ended("running", 0)]

\* a coroutine that returned or raised: its frame and locals are gone, its
\* outcome is what gather keeps
Finished(kind, code) ==
    [pc |-> "done", page_count |-> 0, attempt |-> 0, outcome |-> Ended(kind, code)]

\* a coroutine that gives up the event loop only while a request is in
\* flight, and keeps it through its sleep
SuspendedForRequestOnly(t) == t.pc = "inflight"

\* await session.request(...) and await asyncio.sleep(...) both suspend the
\* coroutine and hand the event loop back
Suspended(t) == t.pc \in {"inflight", "sleep"}

\* the event loop can resume task i: no other task is running on it
LoopFree(i) ==
    \A j \in DOMAIN tasks \ {i} :
        tasks[j].pc \in {"ready", "done"} \/ Suspended(tasks[j])

\* request_dispatcher's for loop at index n: the next session.request is
\* awaited, or the loop is over and APIError(0, ...) goes back to the caller
Attempt(t, n) ==
    IF HasAttempt(n, DefaultMaxRetries)
    THEN [t EXCEPT !.pc = "inflight", !.attempt = n]
    ELSE Finished("APIError", RetriesExhausted.status_code)

\* the coroutine called with r, the value session.request yielded, running
\* to its next await or to its end
OnYield(c, t, r) ==
    LET d == Classify(r, DefaultRetryDelay)
        n == t.page_count + 1
    IN  IF d.act = "raise"
        THEN Finished("exception", 0)
        ELSE IF d.act = "sleep" THEN [t EXCEPT !.pc = "sleep"]
        ELSE IF isAPIError(d.value)
            THEN Finished("APIError", d.value.status_code)
        ELSE IF c.paged /\ LoopCondition(get_next_page_url(r), n, c.max_pages)
            THEN Attempt([t EXCEPT !.page_count = n], 0)
        ELSE Finished("result", n)

\* the session after task i ran to t: a request is outstanding if it stopped
\* at one
Issued(s, i, t) == IF t.pc = "inflight" THEN request_begins(s, i) ELSE s

\* a gather that lets the first exception through to its caller
gather_raising(ts) ==
    IF \E i \in DOMAIN ts : ts[i].outcome.kind = "exception"
    THEN [done |-> TRUE, raised |-> TRUE, results |-> <<>>]
    ELSE [done |-> \A i \in DOMAIN ts : ts[i].pc = "done", raised |-> FALSE,
          results |-> [i \in DOMAIN ts |-> ts[i].outcome]]

\* a gather that returns as soon as one task has ended
gather_first_completed(ts) ==
    [done |-> \E i \in DOMAIN ts : ts[i].pc = "done", raised |-> FALSE,
     results |-> [i \in DOMAIN ts |-> ts[i].outcome]]

\* asyncio.gather(*tasks, return_exceptions=True): done when every task has
\* ended, with the outcomes in the order of the tasks, exceptions among them
gather(ts) ==
    [done |-> \A i \in DOMAIN ts : ts[i].pc = "done", raised |-> FALSE,
     results |-> [i \in DOMAIN ts |-> ts[i].outcome]]

\* the line main prints for a result
Shown(result) ==
    [line |-> IF result.kind = "APIError" THEN "API Error" ELSE "result",
     of |-> result]

InitMain ==
    /\ NoFetch
    /\ pc = "none"
    /\ input = <<>>
    /\ output = <<>>
    /\ tasks = <<>>
    /\ session = None
    /\ mainpc = "start"

\* GITHUB_TOKEN is not set: main raises ValueError before any session exists
MainNoToken ==
    /\ mainpc = "start"
    /\ mainpc' = "raised"
    /\ UNCHANGED <<fetchVars, pc, input, output, tasks, session>>

\* async with SessionManager(aiohttpSession()) as session; the tasks list is
\* built and gather is awaited
MainEnter ==
    /\ mainpc = "start"
    /\ session' = aenter(aiohttpSession)
    /\ tasks' = [i \in DOMAIN TaskCalls |-> NotStarted]
    /\ mainpc' = "gather"
    /\ UNCHANGED <<fetchVars, pc, input, output>>

\* the event loop runs task i for the first time: the driver's loop head,
\* or get_contents' single call
TaskStart(i) ==
    /\ i \in DOMAIN tasks
    /\ tasks[i].pc = "ready"
    /\ LoopFree(i)
    /\ LET t == IF LoopCondition(<<"u1">>, 0, TaskCalls[i].max_pages)
                THEN Attempt(tasks[i], 0)
                ELSE Finished("result", 0)
       IN  /\ tasks' = [tasks EXCEPT ![i] = t]
           /\ session' = Issued(session, i, t)
    /\ UNCHANGED <<fetchVars, pc, input, output, mainpc>>

\* session.request yields to task i
TaskReceive(i) ==
    /\ i \in DOMAIN tasks
    /\ tasks[i].pc = "inflight"
    /\ LoopFree(i)
    /\ \E o \in ClientOutcomes :
        LET t == OnYield(TaskCalls[i], tasks[i], SessionRequest(o))
        IN  /\ tasks' = [tasks EXCEPT ![i] = t]
            /\ session' = Issued(request_ends(session, i), i, t)
    /\ UNCHANGED <<fetchVars, pc, input, output, mainpc>>

\* asyncio.sleep returns to task i
TaskWakeUp(i) ==
    /\ i \in DOMAIN tasks
    /\ tasks[i].pc = "sleep"
    /\ LoopFree(i)
    /\ LET t == Attempt(tasks[i], tasks[i].attempt + 1)
       IN  /\ tasks' = [tasks EXCEPT ![i] = t]
           /\ session' = Issued(session, i, t)
    /\ UNCHANGED <<fetchVars, pc, input, output, mainpc>>

TaskStep(i) == TaskStart(i) \/ TaskReceive(i) \/ TaskWakeUp(i)

\* results = await asyncio.gather(...)
GatherReturns ==
    /\ mainpc = "gather"
    /\ gather(tasks).done
    /\ input' = gather(tasks).results
    /\ mainpc' = IF gather(tasks).raised THEN "aexit_exc" ELSE "print"
    /\ UNCHANGED <<fetchVars, pc, output, tasks, session>>

\* for result in results: one print; after the last the block is over
MainPrint ==
    /\ mainpc = "print"
    /\ Len(output) < Len(input)
    /\ output' = Append(output, Shown(input[Len(output) + 1]))
    /\ mainpc' = IF Len(output') = Len(input) THEN "aexit" ELSE "print"
    /\ UNCHANGED <<fetchVars, pc, input, tasks, session>>

NextMain ==
    \/ MainNoToken
    \/ MainEnter
    \/ \E i \in DOMAIN TaskCalls : TaskStart(i)
    \/ \E i \in DOMAIN TaskCalls : TaskReceive(i)
    \/ \E i \in DOMAIN TaskCalls : TaskWakeUp(i)
    \/ GatherReturns
    \/ MainPrint
    \/ ScopeExit

MainSpec == InitMain /\ [][NextMain]_vars

\* the event loop resumes every task whose request or timer is over, and
\* main when gather is done
FairMainSpec ==
    /\ MainSpec
    /\ \A i \in DOMAIN TaskCalls : WF_vars(TaskStep(i))
    /\ WF_vars(GatherReturns \/ MainPrint \/ ScopeExit)

(***************************************************************************)
(* Properties                                                              *)
(***************************************************************************)
\* the events of one kind in the running dispatch
LogOf(ev) == SelectSeq(log, LAMBDA e : e.ev = ev)
\* the arguments of the asyncio.sleep calls of the running dispatch
SleepSecs == [i \in 1..Len(LogOf("sleep")) |-> LogOf("sleep")[i].arg]
\* the statuses the running dispatch has seen
Statuses == [i \in 1..Len(LogOf("got")) |-> LogOf("got")[i].arg]
NumCalls == Len(LogOf("call"))
\* the dispatcher has returned (and the driver may have returned after it)
Returned == pc \in {"returned", "done"} /\ outcome.kind # "raise"
\* text made of decimal digits only
AllDigits(v) == Len(v) > 0 /\ \A i \in 1..Len(v) : v[i] \in Digits

\* C1: after max_retries consecutive 500 responses the dispatcher returns
\* APIError{0, "Max retries reached without success."} having slept
\* retry_delay exactly max_retries - 1 times.
C1_SleepsOneLessThanAttempts ==
    (/\ pc = "returned"
     /\ max_retries >= 1
     /\ Statuses = [i \in 1..max_retries |-> 500]
     /\ LogOf("error") = <<>>)
    => /\ response = RetriesExhausted
       /\ SleepSecs = [i \in 1..(max_retries - 1) |-> retry_delay]

\* C2: request_dispatcher never ends by raising an exception.
C2_NeverRaises == outcome.kind # "raise"

\* the attempt just classified got a 403 whose Retry-After is not sent or is
\* no integer
Got403NoSeconds ==
    /\ pc \in {"sleep", "done"}
    /\ response.kind = "Response"
    /\ response.status = 403
    /\ \/ "Retry-After" \notin DOMAIN response.headers
       \/ ~AllDigits(response.headers["Retry-After"])

\* C3: a 403 whose Retry-After header is absent or unparseable makes the
\* dispatcher sleep retry_delay (and then go on to the next attempt).
C3_FallbackOnUnparseable ==
    Got403NoSeconds
    => /\ pc = "sleep"
       /\ sleeping = retry_delay
       /\ log[Len(log)].ev = "sleep"
       /\ log[Len(log)].arg = retry_delay

\* the seconds each numeric Retry-After text of the server stands for
SecondsOf(v) == IF v = <<"7">> THEN 7 ELSE IF v = <<"1", "2">> THEN 12 ELSE -1

\* C4: after a 403 the dispatcher sleeps once before the next transport
\* call, for the R seconds of a numeric Retry-After header, and for
\* retry_delay seconds when the header is absent.
C4_SleepsRetryAfter ==
    /\ (pc = "sleep" /\ response.status = 403)
       => /\ log[Len(log)].ev = "sleep" /\ log[Len(log)].arg = sleeping
          /\ log[Len(log) - 1].ev = "got" /\ log[Len(log) - 1].arg = 403
          /\ IF "Retry-After" \in DOMAIN response.headers
             THEN AllDigits(response.headers["Retry-After"])
                  => sleeping = SecondsOf(response.headers["Retry-After"])
             ELSE sleeping = retry_delay
    /\ \A i \in 1..Len(log) :
        (log[i].ev = "got" /\ log[i].arg = 403 /\ i < Len(log))
        => /\ log[i + 1].ev = "sleep"
           /\ i + 2 <= Len(log) => log[i + 2].ev = "call"

C4_Witness ==
    /\ pc = "sleep"
    /\ response.status = 403
    /\ "Retry-After" \in DOMAIN response.headers
    /\ response.headers["Retry-After"] = <<"1", "2">>
    /\ sleeping = 12
    /\ retry_delay = 60

\* the fixed errors of the two statuses that end a dispatch at once
FixedError(status) ==
    IF status = 401
    THEN APIError(401, <<"Unauthorized access. Check your token.">>)
    ELSE APIError(404, <<"Resource not found.">>)

\* C5: a 401 or a 404 ends the dispatch on the attempt that saw it, with the
\* fixed APIError of that status, no sleep and no further transport call;
\* as the first response it leaves one transport call and no sleep at all.
C5_FixedErrorAtOnce ==
    \A i \in 1..Len(log) :
        (log[i].ev = "got" /\ log[i].arg \in {401, 404})
        => /\ i = Len(log)
           /\ Returned
           /\ response = FixedError(log[i].arg)
           /\ Len(Statuses) = 1 => (NumCalls = 1 /\ SleepSecs = <<>>)

C5_Witness ==
    /\ pc = "returned"
    /\ Statuses = <<404>>
    /\ NumCalls = 1
    /\ response = APIError(404, <<"Resource not found.">>)
    /\ max_retries > 1

\* C6: only a 403 or a status >= 500 is retried: any other status but 200
\* ends the dispatch at once with an APIError carrying that status, and a
\* later transport call of a dispatch follows the sleep after a 403 or a
\* status >= 500.
C6_RetryableExactly ==
    /\ \A i \in 1..Len(log) :
        (log[i].ev = "got" /\ log[i].arg \notin {200, 403} /\ log[i].arg < 500)
        => /\ i = Len(log)
           /\ Returned
           /\ isAPIError(response)
           /\ response.status_code = log[i].arg
    /\ \A i \in 2..Len(log) :
        log[i].ev = "call"
        => /\ i >= 4
           /\ log[i - 1].ev = "sleep"
           /\ log[i - 2].ev = "got"
           /\ log[i - 2].arg = 403 \/ log[i - 2].arg >= 500

C6_Witness ==
    /\ pc = "returned"
    /\ Statuses = <<503, 403, 429>>
    /\ isAPIError(response)
    /\ response.status_code = 429

\* C7: a transport-level APIError ends the dispatch at once, on any attempt:
\* the dispatcher returns that very APIError, without a sleep or a further
\* transport call.
C7_TransportErrorAtOnce ==
    \A i \in 1..Len(log) :
        log[i].ev = "error"
        => /\ i = Len(log)
           /\ Returned
           /\ response = log[i].arg
           /\ response.status_code = 0

C7_Witness ==
    /\ pc = "returned"
    /\ Len(Statuses) = 1
    /\ attempt + 1 < max_retries
    /\ log[Len(log)].ev = "error"
    /\ response = APIError(0, <<"Request failed: ", "reset">>)

\* C8: an APIError from the dispatch of any page is the driver's result,
\* whatever pages came before it, and is the driver's last dispatch.
C8_ErrorIsResult ==
    /\ isAPIError(response) => pc \in {"returned", "done"}
    /\ (pc = "done" /\ isAPIError(response))
       => /\ outcome.kind = "error"
          /\ outcome.value = response
          /\ Len(dispatched) = Len(pages) + 1
    /\ outcome.kind = "error" => (pc = "done" /\ isAPIError(response))

C8_Witness ==
    /\ pc = "done"
    /\ Len(pages) = 2
    /\ outcome.kind = "error"
    /\ outcome.value = APIError(404, <<"Resource not found.">>)

\* the page carries a Link header with a rel="next" entry
HasNext(page) ==
    "Link" \in DOMAIN page.headers /\ Contains(page.headers["Link"], "rel=next")

\* the cap on the pages: max_pages, and no page for a negative max_pages
PageCap == IF max_pages > 0 THEN max_pages ELSE 0

\* C9: the driver never holds or dispatches more than max_pages pages, and
\* returns exactly max_pages pages when every page succeeds and links to a
\* next one.
C9_AtMostMaxPages ==
    /\ Len(results) <= PageCap
    /\ Len(dispatched) <= PageCap
    /\ outcome.kind = "results" => Len(outcome.value) <= PageCap
    /\ (/\ outcome.kind = "results"
        /\ Len(pages) >= 1
        /\ \A i \in 1..Len(pages) : HasNext(pages[i]))
       => Len(outcome.value) = max_pages

C9_Witness ==
    /\ outcome.kind = "results"
    /\ max_pages = 2
    /\ Len(outcome.value) = 2
    /\ \A i \in 1..Len(pages) : HasNext(pages[i])

\* the URL the rel="next" entry of a page of the server points to
NextUrlOf(page) ==
    LET l == page.headers["Link"]
        sep == <<",", " ">>
    IN  IF l = LinkNext("u2") \o sep \o LinkLast("u9") THEN <<"u2">>
        ELSE IF l = LinkPrev("u1") \o sep \o LinkNext("u3") THEN <<"u3">>
        ELSE <<"?">>

\* C10: for n < max_pages successful pages, each but the last linking to a
\* next one, the driver returns their bodies in fetch order, having
\* requested each page once at the URL of the page before it, and stops
\* because the last page has no next link.
C10_FollowsChain ==
    /\ (outcome.kind = "results" /\ Len(pages) >= 1 /\ Len(pages) < max_pages)
       => ~HasNext(pages[Len(pages)])
    /\ (/\ outcome.kind = "results"
        /\ Len(pages) >= 1
        /\ Len(pages) < max_pages
        /\ \A i \in 1..(Len(pages) - 1) : HasNext(pages[i])
        /\ ~HasNext(pages[Len(pages)]))
       => /\ outcome.value = [i \in 1..Len(pages) |-> pages[i].json]
          /\ Len(dispatched) = Len(pages)
          /\ \A i \in 1..(Len(pages) - 1) :
                dispatched[i + 1].url = NextUrlOf(pages[i])
          /\ url = <<>>
          /\ page_count < max_pages

C10_Witness ==
    /\ outcome.kind = "results"
    /\ max_pages = 3
    /\ Len(pages) = 2
    /\ outcome.value = <<"P2", "P1">>
    /\ dispatched[2].url = <<"u3">>
    /\ ~HasNext(pages[2])

\* the steps one dispatch can take at most: three for each attempt (call,
\* yield, wake up), the final return and the driver's handling of it
StepsOfDispatch == 3 * Max(max_retries, 0) + 4

\* a bound on the steps the task has left, from where it stands
StepsLeft ==
    LET after == Max(max_pages - page_count - 1, 0) * StepsOfDispatch + 1
        left == Max(max_retries - attempt, 0)
    IN  CASE pc = "done" -> 0
          [] pc = "loop" -> Max(max_pages - page_count, 0) * StepsOfDispatch + 1
          [] pc = "returned" -> after + 1
          [] pc = "attempt" -> after + 2 + 3 * left
          [] pc = "inflight" -> after + 1 + 3 * left
          [] pc = "sleep" -> after + 3 * left

\* C11: fetch_paginated_data terminates whenever each transport call and
\* sleep does, for any per_page and max_pages: until it has returned it can
\* always take a step, and every step lowers a bound on the steps left; with
\* max_pages <= 0 it makes no dispatcher or transport call and returns the
\* empty sequence.
C11_Terminates ==
    /\ [](max_pages <= 0
          => /\ dispatched = <<>>
             /\ log = <<>>
             /\ pc \in {"loop", "done"}
             /\ pc = "done" => outcome = [kind |-> "results", value |-> <<>>])
    /\ [](pc = "done" \/ ENABLED Next)
    /\ [](StepsLeft >= 0)
    /\ [][StepsLeft' < StepsLeft]_vars

C11_Witness ==
    /\ pc = "done"
    /\ max_pages = 0
    /\ per_page = 0
    /\ dispatched = <<>>
    /\ outcome = [kind |-> "results", value |-> <<>>]

\* C18: one dispatch makes at most max_retries transport calls, one after
\* the other: a call starts only when the call before it has yielded and
\* the sleep after it has ended; with max_retries <= 0 it makes none and
\* returns APIError{0, "Max retries reached without success."}.
C18_BoundedSequentialAttempts ==
    /\ NumCalls <= Max(max_retries, 0)
    /\ \A i \in 1..Len(log) :
        log[i].ev = "call"
        => /\ log[i].arg = Len(SelectSeq(SubSeq(log, 1, i - 1),
                                         LAMBDA e : e.ev = "call"))
           /\ i > 1 => log[i - 1].ev = "sleep"
           /\ i < Len(log) => log[i + 1].ev \in {"got", "error"}
    /\ pc = "inflight" <=> (log # <<>> /\ log[Len(log)].ev = "call")
    /\ pc = "sleep" => log[Len(log)].ev = "sleep"
    /\ max_retries <= 0
       => /\ log = <<>>
          /\ pc \notin {"inflight", "sleep"}
          /\ pc = "returned" => response = RetriesExhausted

C18_Witness ==
    /\ pc = "returned"
    /\ max_retries = 3
    /\ NumCalls = 3
    /\ Statuses = <<500, 403, 503>>
    /\ response = RetriesExhausted

\* a status the dispatcher retries after
Retryable(status) == status = 403 \/ status >= 500

\* C19: the dispatcher returns a Response exactly when some attempt
\* k <= max_retries got status 200 after k - 1 attempts that got 403 or a
\* status >= 500; the value returned is the Response that attempt yielded,
\* and k - 1 sleeps were made.
C19_ResponseIffRetriedTo200 ==
    pc = "returned"
    => /\ response.kind = "Response"
          <=> /\ LogOf("error") = <<>>
              /\ Len(Statuses) \in 1..max_retries
              /\ Statuses[Len(Statuses)] = 200
              /\ \A i \in 1..(Len(Statuses) - 1) : Retryable(Statuses[i])
       /\ response.kind = "Response"
          => /\ response = yielded
             /\ response.status = 200
             /\ NumCalls = Len(Statuses)
             /\ Len(SleepSecs) = Len(Statuses) - 1

C19_Witness ==
    /\ pc = "returned"
    /\ Statuses = <<403, 500, 200>>
    /\ Len(SleepSecs) = 2
    /\ response.kind = "Response"
    /\ response.json = "P2"

\* the params the caller passed, with per_page set
ExpectedParams ==
    IF per_page = 30 THEN [per_page |-> 30] ELSE [q |-> "ml", per_page |-> 0]

\* C20: every dispatcher call of the driver is a GET of the current URL (the
\* caller's URL, then the URL of the page before's next link) with
\* per_page set, the caller's other params kept, and the same max_retries
\* and retry_delay: each page has the whole retry budget.
C20_SameRequestEveryPage ==
    /\ \A i \in 1..Len(dispatched) :
        /\ dispatched[i].method = "GET"
        /\ dispatched[i].params = ExpectedParams
        /\ dispatched[i].max_retries = max_retries
        /\ dispatched[i].retry_delay = retry_delay
        /\ dispatched[i].url = IF i = 1 THEN <<"u1">> ELSE NextUrlOf(pages[i - 1])
    /\ dispatched # <<>> => params = ExpectedParams
    /\ (pc = "attempt" /\ log = <<>>) => attempt = 0
    /\ pc \in {"attempt", "returned"} => attempt = Len(SleepSecs)

C20_Witness ==
    /\ Len(dispatched) = 2
    /\ dispatched[2].url = <<"u3">>
    /\ dispatched[2].params = [q |-> "ml", per_page |-> 0]
    /\ pc = "returned"
    /\ max_retries = 2
    /\ NumCalls = 2
    /\ response = RetriesExhausted

\* the URL of the first entry tagged rel="next", "" when there is none
ExpectedNext(entries) ==
    LET tagged == {i \in 1..Len(entries) : entries[i].rel = "rel=next"}
    IN  IF tagged = {} THEN <<>>
        ELSE <<entries[CHOOSE i \in tagged : \A j \in tagged : i <= j].url>>

\* C16: on a Link header of entries <url>; rel="X" joined by commas,
\* get_next_page_url returns the URL between "<" and ">" of the entry
\* tagged rel="next", and "" when the header is absent or has no such entry.
C16_NextLinkParsed ==
    pc = "parsed"
    => /\ output = ExpectedNext(input.entries)
       /\ "Link" \notin DOMAIN input.response.headers => output = <<>>

C16_Witness ==
    /\ pc = "parsed"
    /\ "Link" \in DOMAIN input.response.headers
    /\ input.response.headers["Link"]
        = <<"<", "https://api.example.com/page2", ">", ";", " ", "rel=next",
            ",", " ",
            "<", "https://api.example.com/page9", ">", ";", " ", "rel=last">>
    /\ output = <<"https://api.example.com/page2">>

\* the items of the data in page order, as lists: the items of each page
\* for the first two parsers, the data itself (one body) for the third
ItemLists ==
    IF input.fn = "parse_repositories"
    THEN [p \in 1..Len(input.data) |-> input.data[p].items]
    ELSE IF input.fn = "parse_commit_data" THEN input.data
    ELSE <<input.data>>

\* the items before page p
RECURSIVE ItemsBefore(_)
ItemsBefore(p) ==
    IF p <= 1 THEN 0 ELSE ItemsBefore(p - 1) + Len(ItemLists[p - 1])

\* the record a parser makes of an item
RecordOf(item) ==
    IF input.fn = "parse_repositories"
    THEN [name |-> item.name, html_url |-> item.html_url]
    ELSE IF input.fn = "parse_commit_data"
    THEN [author |-> item.commit.author, sha |-> item.sha,
          message |-> item.commit.message]
    ELSE [path |-> item.path, download_link |-> item.download_url]

\* C17: on well-formed data each parser returns one record for each item,
\* in page order and then item order, returns the same again when applied
\* again, and leaves the data as it was.
C17_ParsersInOrder ==
    /\ [](\A k \in 1..Len(output) :
            /\ Len(output[k]) = ItemsBefore(Len(ItemLists) + 1)
            /\ \A p \in 1..Len(ItemLists) : \A i \in 1..Len(ItemLists[p]) :
                  output[k][ItemsBefore(p) + i] = RecordOf(ItemLists[p][i])
            /\ output[k] = output[1])
    /\ [][input' = input]_vars

C17_Witness ==
    /\ input.fn = "parse_commit_data"
    /\ Len(input.data) = 2
    /\ Len(input.data[1]) = 2
    /\ Len(input.data[2]) = 1
    /\ Len(output) = 2
    /\ Len(output[2]) = 3
    /\ output[2][3].sha = "b2"
    /\ output[2][1].sha = "a1"

\* C12: SessionManager calls close() on its session exactly once for each
\* scope, when the block has ended or raised and before control is back
\* with the caller; it does not call it before the block is entered nor
\* while the block runs.
C12_ClosedOnceOnExit ==
    /\ mainpc \in {"outside", "block", "aexit", "aexit_exc"}
        => session.closes = 0 /\ ~session.closed
    /\ mainpc \in {"returned", "raised"}
        => session.closes = 1 /\ session.closed

C12_Witness ==
    /\ mainpc = "raised"
    /\ Len(output) = MaxBlockCalls
    /\ session.closes = 1

AllEnded == \A i \in DOMAIN tasks : tasks[i].pc = "done"

\* C13: while one task is in its backoff sleep every other task that has
\* not ended can take its next step, a transport call included, and every
\* task started reaches its outcome.
C13_SleepBlocksNobody ==
    /\ [](\A i \in DOMAIN tasks : \A j \in DOMAIN tasks \ {i} :
            tasks[i].pc = "sleep" /\ tasks[j].pc # "done"
                => ENABLED TaskStep(j))
    /\ [][\A i \in DOMAIN tasks : \A j \in DOMAIN tasks \ {i} :
            tasks[i].pc = "sleep" /\ tasks'[j] # tasks[j]
                => tasks'[i] = tasks[i]]_vars
    /\ (mainpc = "gather") ~> (mainpc = "gather" /\ AllEnded)

\* the search task is in the sleep of its first attempt, and meanwhile the
\* commits task has fetched its two pages and the contents task has a
\* request out
C13_Witness ==
    /\ mainpc = "gather"
    /\ tasks[1].pc = "sleep"
    /\ tasks[1].attempt = 0
    /\ tasks[1].page_count = 0
    /\ tasks[2].outcome = Ended("result", CommitsMaxPages)
    /\ tasks[3].pc = "inflight"
    /\ session.outstanding = {3}

Entered == mainpc \notin {"start"} /\ tasks # <<>>

\* C14: in main a task that ends with an APIError or an exception stops no
\* other task: each of the three runs to its own outcome, gather hands all
\* three to main in task order, and main prints one line for each, an
\* "API Error" line for an APIError and the value itself for anything else.
C14_FailureAbortsNoSibling ==
    /\ \A i \in DOMAIN tasks : \A j \in DOMAIN tasks \ {i} :
            /\ tasks[i].outcome.kind \in {"APIError", "exception"}
            /\ tasks[j].pc # "done"
            => mainpc = "gather" /\ ENABLED TaskStep(j)
    /\ Entered => mainpc \in {"gather", "print", "aexit", "returned"}
    /\ Entered /\ mainpc # "gather"
        => /\ AllEnded
           /\ Len(input) = Len(TaskCalls)
           /\ \A i \in DOMAIN tasks : input[i] = tasks[i].outcome
    /\ Entered /\ mainpc \in {"aexit", "returned"}
        => /\ Len(output) = Len(TaskCalls)
           /\ \A i \in DOMAIN tasks :
                /\ output[i].of = tasks[i].outcome
                /\ output[i].line = "API Error"
                    <=> tasks[i].outcome.kind = "APIError"

\* the search task raised, the commits task returned an APIError, the
\* contents task its records, and main has shown all three
C14_Witness ==
    /\ mainpc = "returned"
    /\ tasks[1].outcome.kind = "exception"
    /\ tasks[2].outcome = Ended("APIError", 404)
    /\ tasks[3].outcome.kind = "result"
    /\ output[1].line = "result"
    /\ output[2].line = "API Error"
    /\ output[3].line = "result"

\* C15: main closes the session only when all three tasks have ended and
\* no request is outstanding, and no request begins on the closed session.
C15_ClosedAfterAllEnded ==
    Entered =>
        /\ session.late = 0
        /\ session.outstanding = {i \in DOMAIN tasks : tasks[i].pc = "inflight"}
        /\ mainpc \in {"aexit", "aexit_exc"} \/ session.closed
            => AllEnded /\ session.outstanding = {}
        /\ session.closed <=> mainpc \in {"returned", "raised"}

\* the search task made its requests for three pages, and the session is
\* closed after the last task ended
C15_Witness ==
    /\ mainpc = "returned"
    /\ session.closed
    /\ session.closes = 1
    /\ tasks[1].outcome = Ended("result", SearchMaxPages)
    /\ tasks[2].outcome = Ended("APIError", 0)
    /\ tasks[3].outcome = Ended("result", 1)

====
